---------------------------- MODULE Spec2Model ----------------------------
(***************************************************************************)
(* Verification model of four kata functions of the repository:            *)
(*   expandBraces, getZigZagMatrix, canDominoesMakeRow  (10-katas-1-tasks) *)
(*   CssSelector / cssSelectorBuilder                   (08-objects-tasks) *)
(*                                                                         *)
(* A JavaScript string is modelled as a sequence of one-character strings. *)
(* JavaScript positions are 0-based; sequence positions here are 1-based,  *)
(* so a JavaScript index i is position i + 1.                              *)
(***************************************************************************)
EXTENDS Integers, Sequences, FiniteSets, TLC

VARIABLES
    str, pc, raw, idx, seen, yielded,          \* expandBraces
    n, zi, zj, num, result, written, zpc,      \* getZigZagMatrix
    dominoes, dpc, dres,                       \* canDominoesMakeRow
    heap, last                                 \* CssSelector objects

vars == << str, pc, raw, idx, seen, yielded,
           n, zi, zj, num, result, written, zpc,
           dominoes, dpc, dres,
           heap, last >>

bracesVars == << str, pc, raw, idx, seen, yielded >>
zigzagVars == << n, zi, zj, num, result, written, zpc >>
dominoVars == << dominoes, dpc, dres >>
cssVars    == << heap, last >>

---------------------------------------------------------------------------
(* Generic helpers on sequences                                            *)

Range(s) == { s[k] : k \in DOMAIN s }

\* the sequences over S of length at most k
SeqsUpTo(S, k) == UNION { [ 1..m -> S ] : m \in 0..k }

RECURSIVE Flatten(_)
Flatten(ss) ==
    IF ss = << >> THEN << >> ELSE Head(ss) \o Flatten(Tail(ss))

---------------------------------------------------------------------------
(* expandBraces                                                            *)

MaxLen == 5

MaxPieces == 3

Chars == { "{", "}", ",", "a", "b" }

\* fragments from which longer patterns are assembled: literals, groups of
\* two and three alternatives, a group with a nested group, lone braces
Pieces ==
    { << "a" >>, << "b" >>, << "," >>, << "{" >>, << "}" >>,
      << "{", "a", ",", "b", "}" >>,
      << "{", ",", "}" >>,
      << "{", "a", ",", "b", ",", "}" >>,
      << "{", "a", ",", "b", "{", "a", ",", "}", "b", "}" >> }

\* every string of at most MaxLen characters, and every concatenation of
\* at most MaxPieces fragments
Patterns(len, pieces) ==
    SeqsUpTo(Chars, len)
      \cup { Flatten(ps) : ps \in SeqsUpTo(Pieces, pieces) }

Ok(out) == [ err |-> FALSE, out |-> out ]
Throw   == [ err |-> TRUE,  out |-> << >> ]

\* s.slice(from, to) with 0-based from (inclusive) and to (exclusive)
Slice(s, from, to) == SubSeq(s, from + 1, to)

\* outer while loop, lines 88-89 and 118: 0-based index of the first '{', or -1
FirstOpen(s) ==
    IF \E k \in 1..Len(s) : s[k] = "{"
    THEN (CHOOSE k \in 1..Len(s) :
              s[k] = "{" /\ \A m \in 1..(k - 1) : s[m] # "{") - 1
    ELSE -1

\* inner while loop, lines 94-98: i and level when the loop exits
RECURSIVE ScanClose(_, _, _)
ScanClose(s, i, level) ==
    IF i < Len(s) /\ level > 0
    THEN ScanClose(s, i + 1,
                   IF s[i + 1] = "{" THEN level + 1
                   ELSE IF s[i + 1] = "}" THEN level - 1
                   ELSE level)
    ELSE [ i |-> i, level |-> level ]

UnbalancedNever(level) == FALSE

\* line 100: if (level !== 0) throw
Unbalanced(level) == level # 0

\* lines 124-141
RECURSIVE SplitLoop(_, _, _, _)
SplitLoop(s, res, braceLevel, current) ==
    IF s = << >> THEN Append(res, current)
    ELSE LET ch == Head(s)
         IN  IF ch = "," /\ braceLevel = 0
             THEN SplitLoop(Tail(s), Append(res, current), braceLevel, << >>)
             ELSE SplitLoop(Tail(s), res,
                            (IF ch = "{" THEN braceLevel + 1 ELSE braceLevel)
                              - (IF ch = "}" THEN 1 ELSE 0),
                            Append(current, ch))

splitCommaSafe(s) == SplitLoop(s, << >>, 0, << >>)

CombineTailMajor(prefix, variants, tails) ==
    Flatten([ t \in DOMAIN tails |->
                [ v \in DOMAIN variants |-> prefix \o variants[v] \o tails[t] ] ])

\* lines 108-113: for each variant, for each tail, push prefix + variant + tail
Combine(prefix, variants, tails) ==
    Flatten([ v \in DOMAIN variants |->
                [ t \in DOMAIN tails |-> prefix \o variants[v] \o tails[t] ] ])

\* lines 84-122
RECURSIVE expand(_)
expand(s) ==
    LET openIndex == FirstOpen(s)
    IN  IF openIndex = -1 THEN Ok(<< s >>)
        ELSE LET scan == ScanClose(s, openIndex + 1, 1)
                 i    == scan.i
             IN  IF Unbalanced(scan.level) THEN Throw
                 ELSE LET inner    == Slice(s, openIndex + 1, i - 1)
                          variants == splitCommaSafe(inner)
                          prefix   == Slice(s, 0, openIndex)
                          suffix   == Slice(s, i, Len(s))
                          tails    == expand(suffix)
                      IN  IF tails.err THEN Throw
                          ELSE Ok(Combine(prefix, variants, tails.out))

FreshAlways(set, val) == TRUE

\* line 145: !seen.has(val)
Fresh(set, val) == val \notin set

BracesInit ==
    /\ str \in Patterns(MaxLen, MaxPieces)
    /\ pc = "start"
    /\ raw = << >>
    /\ idx = 1
    /\ seen = {}
    /\ yielded = << >>
    \* the other functions share no state with this one: their variables rest
    /\ n = 0 /\ zi = 0 /\ zj = 0 /\ num = 0 /\ result = << >>
    /\ written = << >> /\ zpc = "idle"
    /\ dominoes = << >> /\ dpc = "idle" /\ dres = FALSE
    /\ heap = << >> /\ last = [ kind |-> 0 ]

\* line 144: the first next() evaluates expand(str) in full before any yield
CallExpand ==
    /\ pc = "start"
    /\ LET r == expand(str)
       IN  /\ pc' = IF r.err THEN "error" ELSE "iter"
           /\ raw' = r.out
    /\ UNCHANGED << str, idx, seen, yielded >>
    /\ UNCHANGED << zigzagVars, dominoVars, cssVars >>

\* lines 144-148, a value not seen before: remember it and yield it
YieldVal ==
    /\ pc = "iter"
    /\ idx <= Len(raw)
    /\ Fresh(seen, raw[idx])
    /\ seen' = seen \cup { raw[idx] }
    /\ yielded' = Append(yielded, raw[idx])
    /\ idx' = idx + 1
    /\ UNCHANGED << str, pc, raw >>
    /\ UNCHANGED << zigzagVars, dominoVars, cssVars >>

\* lines 144-145, a value seen before: skip it
SkipVal ==
    /\ pc = "iter"
    /\ idx <= Len(raw)
    /\ ~ Fresh(seen, raw[idx])
    /\ idx' = idx + 1
    /\ UNCHANGED << str, pc, raw, seen, yielded >>
    /\ UNCHANGED << zigzagVars, dominoVars, cssVars >>

\* line 144: the for-of loop is exhausted, the generator returns
Finish ==
    /\ pc = "iter"
    /\ idx > Len(raw)
    /\ pc' = "done"
    /\ UNCHANGED << str, raw, idx, seen, yielded >>
    /\ UNCHANGED << zigzagVars, dominoVars, cssVars >>

BracesNext == CallExpand \/ YieldVal \/ SkipVal \/ Finish

SpecBraces ==
    /\ BracesInit
    /\ [][BracesNext]_vars

---------------------------------------------------------------------------
(* Reference notions for brace patterns, stated without the scanner        *)

IsOpen(c)  == c = "{"
IsClose(c) == c = "}"

Count(s, c) == Cardinality({ k \in DOMAIN s : s[k] = c })

\* nesting depth after the first k characters (opens minus closes)
DepthAt(s, k) == Count(SubSeq(s, 1, k), "{") - Count(SubSeq(s, 1, k), "}")

Balanced(s) ==
    /\ DepthAt(s, Len(s)) = 0
    /\ \A k \in 0..Len(s) : DepthAt(s, k) >= 0

\* balanced, and no group inside another group
FlatBalanced(s) ==
    /\ Balanced(s)
    /\ \A k \in 0..Len(s) : DepthAt(s, k) <= 1

\* the '}' at position k closes no '{' : no '{' before it is still open
UnmatchedCloseAt(s, k) ==
    /\ s[k] = "}"
    /\ ~ \E o \in 1..(k - 1) :
            /\ s[o] = "{"
            /\ \A m \in o..(k - 1) : DepthAt(s, m) - DepthAt(s, o - 1) >= 1

HasUnmatchedClose(s) == \E k \in DOMAIN s : UnmatchedCloseAt(s, k)

\* the '{' at position o is closed by no later '}'
UnmatchedOpenAt(s, o) ==
    /\ s[o] = "{"
    /\ \A m \in o..Len(s) : DepthAt(s, m) - DepthAt(s, o - 1) >= 1

HasUnmatchedOpen(s) == \E o \in DOMAIN s : UnmatchedOpenAt(s, o)

HasBrace(s) == \E k \in DOMAIN s : IsOpen(s[k]) \/ IsClose(s[k])

\* the alternatives of the balanced text inner: the pieces between the
\* commas that stand at depth 0
RefAlts(inner) ==
    LET commas == { k \in DOMAIN inner :
                      inner[k] = "," /\ DepthAt(inner, k - 1) = 0 }
        starts == { 0 } \cup commas
        ends   == commas \cup { Len(inner) + 1 }
        rank(b) == Cardinality({ c \in starts : c <= b })
    IN  [ j \in 1..Cardinality(starts) |->
            LET b == CHOOSE c \in starts : rank(c) = j
                e == CHOOSE c \in ends : c > b /\ \A d \in ends : d > b => c <= d
            IN  SubSeq(inner, b + 1, e - 1) ]

\* position of the '}' closing the '{' at position 1 of a string
CloseOfHead(s) ==
    CHOOSE m \in 2..Len(s) :
        /\ DepthAt(s, m) = 0
        /\ \A k \in 1..(m - 1) : DepthAt(s, k) >= 1

\* the standard brace expansion of a balanced pattern, as a set: one
\* alternative chosen for every group, nested groups included
RECURSIVE RefExpand(_)
RefExpand(s) ==
    IF s = << >> THEN { << >> }
    ELSE IF ~ IsOpen(Head(s))
    THEN { << Head(s) >> \o y : y \in RefExpand(Tail(s)) }
    ELSE LET m    == CloseOfHead(s)
             alts == RefAlts(SubSeq(s, 2, m - 1))
             rest == RefExpand(SubSeq(s, m + 1, Len(s)))
         IN  UNION { { x \o y : x \in RefExpand(alts[a]), y \in rest } :
                     a \in DOMAIN alts }

\* a flat balanced pattern as a sequence of slots, each a sequence of
\* alternatives: a literal character is a slot with one alternative
RECURSIVE Slots(_)
Slots(s) ==
    IF s = << >> THEN << >>
    ELSE IF ~ IsOpen(Head(s))
    THEN << << << Head(s) >> >> >> \o Slots(Tail(s))
    ELSE LET m == CloseOfHead(s)
         IN  << RefAlts(SubSeq(s, 2, m - 1)) >> \o Slots(SubSeq(s, m + 1, Len(s)))

RECURSIVE Weight(_, _)
\* the number of combinations of the slots after slot g
Weight(slots, g) ==
    IF g >= Len(slots) THEN 1
    ELSE Len(slots[g + 1]) * Weight(slots, g + 1)

\* the combinations of a flat balanced pattern with the leftmost group
\* varying slowest: combination k picks in slot g the digit of k - 1 at g
RefOrder(s) ==
    LET slots == Slots(s)
        total == Weight(slots, 0)
    IN  [ k \in 1..total |->
            Flatten([ g \in DOMAIN slots |->
                        slots[g][ (((k - 1) \div Weight(slots, g))
                                     % Len(slots[g])) + 1 ] ]) ]

FirstIdx(q, x) == CHOOSE k \in DOMAIN q : q[k] = x /\ \A m \in 1..(k - 1) : q[m] # x

\* q lists every value of r once, in the order of first occurrence in r
FirstOccurrences(q, r) ==
    /\ Range(q) = Range(r)
    /\ \A a, b \in DOMAIN q : a < b => FirstIdx(r, q[a]) < FirstIdx(r, q[b])

---------------------------------------------------------------------------
(* Claims on expandBraces                                                  *)

\* C1: for every balanced input, nested groups included, the strings
\* yielded are exactly the strings obtained by choosing one alternative
\* from every group, so none of them still contains a brace group.
C1_ExpandsEveryGroup ==
    (pc = "done" /\ Balanced(str)) =>
        /\ Range(yielded) = RefExpand(str)
        /\ \A k \in DOMAIN yielded : ~ HasBrace(yielded[k])

\* C2: an input with a closing brace that matches no opening brace is
\* rejected: expand never returns a result for it.
C2_UnmatchedCloseRejected ==
    (pc \in { "iter", "done" }) => ~ HasUnmatchedClose(str)

\* C3: an input with an opening brace that no closing brace matches ends
\* in an error, and nothing has been yielded when the error is raised.
C3_UnmatchedOpenFailsBeforeAnyYield ==
    (pc # "start" /\ HasUnmatchedOpen(str)) =>
        (pc = "error" /\ yielded = << >>)

C3_Witness ==
    /\ pc = "error"
    /\ str = << "{", "a", ",", "b", "}", "b", "{" >>

\* C4: for a balanced input without nested groups, expand generates the
\* combinations with the leftmost group varying slowest and each group's
\* alternatives in written order, and the strings are yielded in that
\* order of first generation.
C4_LeftmostGroupVariesSlowest ==
    (pc \in { "iter", "done" } /\ FlatBalanced(str)) =>
        /\ raw = RefOrder(str)
        /\ pc = "done" => FirstOccurrences(yielded, RefOrder(str))

C4_Witness ==
    /\ pc = "done"
    /\ str = << "{", "a", ",", "b", "}", "b", "{", "a", ",", "b", ",", "}" >>
    /\ yielded = << << "a", "b", "a" >>, << "a", "b", "b" >>, << "a", "b" >>,
                    << "b", "b", "a" >>, << "b", "b", "b" >>, << "b", "b" >> >>

\* C5: no string is yielded twice; a string generated several times is
\* yielded at the position of its first generation, and the others keep
\* their relative order.
C5_YieldedOnceAtFirstGeneration ==
    /\ \A a, b \in DOMAIN yielded : a < b => yielded[a] # yielded[b]
    /\ pc = "iter" => FirstOccurrences(yielded, SubSeq(raw, 1, idx - 1))
    /\ pc = "done" => FirstOccurrences(yielded, raw)

C5_Witness ==
    /\ pc = "done"
    /\ str = << "{", "a", ",", "b", "}", "{", ",", "}" >>
    /\ raw = << << "a" >>, << "a" >>, << "b" >>, << "b" >> >>
    /\ yielded = << << "a" >>, << "b" >> >>

---------------------------------------------------------------------------
(* getZigZagMatrix                                                         *)

MaxN == 7

Cells(m) == (0..(m - 1)) \X (0..(m - 1))

MoveShortStep(i, j, m) ==
    IF (i + j) % 2 = 0
    THEN LET j1 == IF j + 1 < m THEN j + 1 ELSE j
             i1 == IF j + 1 < m THEN i ELSE i + 1
         IN  << IF i1 > 0 THEN i1 - 1 ELSE i1, j1 >>
    ELSE LET i1 == IF i + 1 < m THEN i + 1 ELSE i
             j1 == IF i + 1 < m THEN j ELSE j + 1
         IN  << i1, IF j1 > 0 THEN j1 - 1 ELSE j1 >>

\* lines 185-193: the cell after (i, j)
Move(i, j, m) ==
    IF (i + j) % 2 = 0
    THEN LET j1 == IF j + 1 < m THEN j + 1 ELSE j
             i1 == IF j + 1 < m THEN i ELSE i + 2
         IN  << IF i1 > 0 THEN i1 - 1 ELSE i1, j1 >>
    ELSE LET i1 == IF i + 1 < m THEN i + 1 ELSE i
             j1 == IF i + 1 < m THEN j ELSE j + 2
         IN  << i1, IF j1 > 0 THEN j1 - 1 ELSE j1 >>

\* lines 181-182
ZigZagInit ==
    /\ n \in 1..MaxN
    /\ zi = 0
    /\ zj = 0
    /\ num = 0
    /\ result = [ c \in Cells(n) |-> 0 ]
    /\ written = << >>
    /\ zpc = "loop"
    \* the other functions share no state with this one: their variables rest
    /\ str = << >> /\ pc = "idle" /\ raw = << >> /\ idx = 0
    /\ seen = {} /\ yielded = << >>
    /\ dominoes = << >> /\ dpc = "idle" /\ dres = FALSE
    /\ heap = << >> /\ last = [ kind |-> 0 ]

\* lines 183-193, one iteration: result[i][j] = num, then the move.  A row
\* index outside the matrix makes result[i] undefined and the write throws;
\* a column index outside it silently extends the row.
WriteCell ==
    /\ zpc = "loop"
    /\ num < n * n
    /\ IF zi \notin 0..(n - 1)
       THEN /\ zpc' = "error"
            /\ UNCHANGED << zi, zj, num, result, written >>
       ELSE /\ result' = [ c \in DOMAIN result \cup { << zi, zj >> } |->
                             IF c = << zi, zj >> THEN num ELSE result[c] ]
            /\ written' = Append(written, << zi, zj >>)
            /\ zi' = Move(zi, zj, n)[1]
            /\ zj' = Move(zi, zj, n)[2]
            /\ num' = num + 1
            /\ zpc' = zpc
    /\ n' = n
    /\ UNCHANGED << bracesVars, dominoVars, cssVars >>

\* lines 183 and 195: the loop condition fails, the matrix is returned
ReturnMatrix ==
    /\ zpc = "loop"
    /\ num >= n * n
    /\ zpc' = "done"
    /\ UNCHANGED << n, zi, zj, num, result, written >>
    /\ UNCHANGED << bracesVars, dominoVars, cssVars >>

ZigZagNext == WriteCell \/ ReturnMatrix

SpecZigZag ==
    /\ ZigZagInit
    /\ [][ZigZagNext]_vars

\* the matrix of the docstring for n = 3, by cell
Example3 ==
    [ c \in Cells(3) |->
        << << 0, 1, 5 >>, << 2, 4, 6 >>, << 3, 7, 8 >> >>[c[1] + 1][c[2] + 1] ]

\* C8: every write goes to a cell of the n x n matrix, no cell is written
\* twice, no write throws, and the returned matrix holds each of
\* 0..n*n-1 exactly once, 0 at [0][0] and n*n-1 at [n-1][n-1]; for n = 3
\* it is the matrix of the docstring.
C8_ZigZagWritesEachCellOnce ==
    /\ zpc # "error"
    /\ Len(written) = num
    /\ \A k \in DOMAIN written : written[k] \in Cells(n)
    /\ \A a, b \in DOMAIN written : a < b => written[a] # written[b]
    /\ \A k \in DOMAIN written : result[written[k]] = k - 1
    /\ zpc = "done" =>
          /\ DOMAIN result = Cells(n)
          /\ { result[c] : c \in Cells(n) } = 0..(n * n - 1)
          /\ result[<< 0, 0 >>] = 0
          /\ result[<< n - 1, n - 1 >>] = n * n - 1
          /\ n = 3 => result = Example3

C8_Witness ==
    /\ zpc = "done"
    /\ n = 3
    /\ result = Example3
    /\ Len(written) = 9

---------------------------------------------------------------------------
(* canDominoesMakeRow                                                      *)

MaxTiles == 3

MaxPip == 3

\* the tiles [x, y] with values up to pip, in both orientations
Tiles(pip) == (0..pip) \X (0..pip)

\* a Map as its keys in insertion order and the value of each key
EmptyGraph == [ keys |-> << >>, adj |-> << >> ]

Has(g, v) == \E k \in DOMAIN g.keys : g.keys[k] = v

Get(g, v) == g.adj[CHOOSE k \in DOMAIN g.keys : g.keys[k] = v]

\* lines 226-227: if (!graph.has(v)) graph.set(v, [])
Ensure(g, v) ==
    IF Has(g, v) THEN g
    ELSE [ keys |-> Append(g.keys, v), adj |-> Append(g.adj, << >>) ]

\* lines 228-229: graph.get(v).push(w)
Push(g, v, w) ==
    LET k == CHOOSE m \in DOMAIN g.keys : g.keys[m] = v
    IN  [ g EXCEPT !.adj[k] = Append(@, w) ]

\* lines 225-230
RECURSIVE BuildGraph(_, _)
BuildGraph(g, tiles) ==
    IF tiles = << >> THEN g
    ELSE LET a == Head(tiles)[1]
             b == Head(tiles)[2]
         IN  BuildGraph(Push(Push(Ensure(Ensure(g, a), b), a, b), b, a),
                        Tail(tiles))

\* line 233
OddDegrees(g) ==
    Cardinality({ k \in DOMAIN g.adj : Len(g.adj[k]) % 2 = 1 })

\* line 235: the function goes on only if oddDegrees is 0 or 2
OddOk(odd) == odd = 0 \/ odd = 2

\* lines 241-246: dfs(v) with the shared visited set; DfsFrom is the for
\* loop over graph.get(v) from its k-th neighbour on
RECURSIVE Dfs(_, _, _), DfsFrom(_, _, _, _)
Dfs(g, v, visited) == DfsFrom(g, v, 1, visited \cup { v })

DfsFrom(g, v, k, visited) ==
    IF k > Len(Get(g, v)) THEN visited
    ELSE LET neigh == Get(g, v)[k]
         IN  DfsFrom(g, v, k + 1,
                     IF neigh \notin visited THEN Dfs(g, neigh, visited)
                     ELSE visited)

AllVisitedAlways(keys, visited) == TRUE

\* line 250: keys.every(v => visited.has(v))
AllVisited(keys, visited) == \A k \in DOMAIN keys : keys[k] \in visited

\* lines 219-252
canDominoesMakeRow(tiles) ==
    IF Len(tiles) = 0 THEN TRUE
    ELSE LET graph == BuildGraph(EmptyGraph, tiles)
         IN  IF ~ OddOk(OddDegrees(graph)) THEN FALSE
             ELSE AllVisited(graph.keys, Dfs(graph, graph.keys[1], {}))

DominoInit ==
    /\ dominoes \in SeqsUpTo(Tiles(MaxPip), MaxTiles)
    /\ dpc = "call"
    /\ dres = FALSE
    \* the other functions share no state with this one: their variables rest
    /\ str = << >> /\ pc = "idle" /\ raw = << >> /\ idx = 0
    /\ seen = {} /\ yielded = << >>
    /\ n = 0 /\ zi = 0 /\ zj = 0 /\ num = 0 /\ result = << >>
    /\ written = << >> /\ zpc = "idle"
    /\ heap = << >> /\ last = [ kind |-> 0 ]

CallCanDominoesMakeRow ==
    /\ dpc = "call"
    /\ dres' = canDominoesMakeRow(dominoes)
    /\ dpc' = "done"
    /\ UNCHANGED dominoes
    /\ UNCHANGED << bracesVars, zigzagVars, cssVars >>

DominoNext == CallCanDominoesMakeRow

SpecDomino ==
    /\ DominoInit
    /\ [][DominoNext]_vars

\* the tiles numbered by rest can be laid, one after another and in either
\* orientation, after a tile whose free end shows the value end
RECURSIVE Chain(_, _, _)
Chain(tiles, rest, end) ==
    \/ rest = {}
    \/ \E k \in rest :
          \/ tiles[k][1] = end /\ Chain(tiles, rest \ { k }, tiles[k][2])
          \/ tiles[k][2] = end /\ Chain(tiles, rest \ { k }, tiles[k][1])

\* all the tiles can be placed in one row with touching ends equal
CanRow(tiles) ==
    \/ tiles = << >>
    \/ \E k \in DOMAIN tiles, side \in { 1, 2 } :
          Chain(tiles, DOMAIN tiles \ { k }, tiles[k][side])

\* C6: canDominoesMakeRow returns true exactly when all the tiles can be
\* placed in a single row with touching ends equal, either orientation
\* allowed, doubles included; it returns true for the empty list.
C6_TrueIffRowExists ==
    dpc = "done" => (dres <=> CanRow(dominoes))

C6_Witness ==
    /\ dpc = "done"
    /\ dominoes = << << 1, 1 >>, << 2, 2 >>, << 1, 2 >> >>
    /\ dres = TRUE

---------------------------------------------------------------------------
(* CssSelector and cssSelectorBuilder                                      *)

MaxObjs == 3

MaxParts == 3

Values == { "a" }

\* lines 114-122: new CssSelector()
NewCssSelector ==
    [ result |-> << >>,
      order  |-> 0,
      used   |-> [ element |-> FALSE, id |-> FALSE, pseudoElement |-> FALSE ] ]

cloneFreshUsed(o) ==
    [ result |-> o.result, order |-> o.order, used |-> NewCssSelector.used ]

\* lines 124-130
clone(o) == [ result |-> o.result, order |-> o.order, used |-> o.used ]

\* lines 132-139: throws if current < this.order, else this.order = current
checkOrder(o, current) ==
    IF current < o.order
    THEN [ threw |-> TRUE, obj |-> o ]
    ELSE [ threw |-> FALSE, obj |-> [ o EXCEPT !.order = current ] ]

\* lines 141-148: throws if this.used[type], else this.used[type] = true
checkUnique(o, type) ==
    IF o.used[type]
    THEN [ threw |-> TRUE, obj |-> o ]
    ELSE [ threw |-> FALSE, obj |-> [ o EXCEPT !.used[type] = TRUE ] ]

\* the body shared by the six methods: the checks on this, which change
\* this, then the clone and the text appended to the clone.  unique is ""
\* for the methods that call no checkUnique.
Method(o, current, unique, text) ==
    LET c1 == checkOrder(o, current)
        c2 == IF c1.threw \/ unique = "" THEN c1
              ELSE checkUnique(c1.obj, unique)
    IN  IF c2.threw
        THEN [ threw |-> TRUE, recv |-> c2.obj, copy |-> NewCssSelector ]
        ELSE [ threw |-> FALSE, recv |-> c2.obj,
               copy  |-> [ clone(c2.obj) EXCEPT !.result = @ \o text ] ]

\* lines 150-156
element(o, value) == Method(o, 1, "element", << value >>)

\* lines 158-164
id(o, value) == Method(o, 2, "id", << "#", value >>)

\* lines 166-171
class(o, value) == Method(o, 3, "", << ".", value >>)

\* lines 173-178
attr(o, value) == Method(o, 4, "", << "[", value, "]" >>)

\* lines 180-185
pseudoClass(o, value) == Method(o, 5, "", << ":", value >>)

\* lines 187-193
pseudoElement(o, value) == Method(o, 6, "pseudoElement", << ":", ":", value >>)

\* lines 195-197: the string of a selector, split back into the kinds of
\* its parts (1 element, 2 id, 3 class, 4 attribute, 5 pseudo-class,
\* 6 pseudo-element) by the punctuation that introduces each part
RECURSIVE Kinds(_)
Kinds(s) ==
    IF s = << >> THEN << >>
    ELSE LET c    == Head(s)
             from(k) == Kinds(SubSeq(s, k, Len(s)))
         IN  IF c = "#" THEN << 2 >> \o from(3)
             ELSE IF c = "." THEN << 3 >> \o from(3)
             ELSE IF c = "[" THEN << 4 >> \o from(4)
             ELSE IF c = ":" /\ Len(s) >= 2 /\ s[2] = ":" THEN << 6 >> \o from(4)
             ELSE IF c = ":" THEN << 5 >> \o from(3)
             ELSE << 1 >> \o from(2)

CssInit ==
    /\ heap = << >>
    /\ last = [ kind |-> 0 ]
    \* the other functions share no state with this one: their variables rest
    /\ str = << >> /\ pc = "idle" /\ raw = << >> /\ idx = 0
    /\ seen = {} /\ yielded = << >>
    /\ n = 0 /\ zi = 0 /\ zj = 0 /\ num = 0 /\ result = << >>
    /\ written = << >> /\ zpc = "idle"
    /\ dominoes = << >> /\ dpc = "idle" /\ dres = FALSE

\* a call of a method on the selector heap[k]: this is changed by the
\* checks whether or not the call throws; a call that returns adds its
\* clone to the selectors the program holds
Invoke(k, kind, r) ==
    /\ \/ r.threw
       \/ Len(heap) < MaxObjs /\ Len(Kinds(heap[k].result)) < MaxParts
    /\ heap' = IF r.threw THEN [ heap EXCEPT ![k] = r.recv ]
               ELSE Append([ heap EXCEPT ![k] = r.recv ], r.copy)
    /\ last' = [ kind |-> kind, before |-> heap[k].result,
                 size |-> Len(heap), threw |-> r.threw ]
    /\ UNCHANGED << bracesVars, zigzagVars, dominoVars >>

\* a call through the facade: the method is called on a new CssSelector,
\* to which nothing else refers
Build(kind, r) ==
    /\ Len(heap) < MaxObjs
    /\ heap' = IF r.threw THEN heap ELSE Append(heap, r.copy)
    /\ last' = [ kind |-> kind, before |-> << >>,
                 size |-> Len(heap), threw |-> r.threw ]
    /\ UNCHANGED << bracesVars, zigzagVars, dominoVars >>

CallElement ==
    \E k \in DOMAIN heap, v \in Values : Invoke(k, 1, element(heap[k], v))

CallId ==
    \E k \in DOMAIN heap, v \in Values : Invoke(k, 2, id(heap[k], v))

CallClass ==
    \E k \in DOMAIN heap, v \in Values : Invoke(k, 3, class(heap[k], v))

CallAttr ==
    \E k \in DOMAIN heap, v \in Values : Invoke(k, 4, attr(heap[k], v))

CallPseudoClass ==
    \E k \in DOMAIN heap, v \in Values : Invoke(k, 5, pseudoClass(heap[k], v))

CallPseudoElement ==
    \E k \in DOMAIN heap, v \in Values : Invoke(k, 6, pseudoElement(heap[k], v))

\* lines 201-203
BuilderElement == \E v \in Values : Build(1, element(NewCssSelector, v))

\* lines 205-207
BuilderId == \E v \in Values : Build(2, id(NewCssSelector, v))

\* lines 209-211
BuilderClass == \E v \in Values : Build(3, class(NewCssSelector, v))

\* lines 213-215
BuilderAttr == \E v \in Values : Build(4, attr(NewCssSelector, v))

\* lines 217-219
BuilderPseudoClass == \E v \in Values : Build(5, pseudoClass(NewCssSelector, v))

\* lines 221-223
BuilderPseudoElement ==
    \E v \in Values : Build(6, pseudoElement(NewCssSelector, v))

CssNext ==
    \/ CallElement \/ CallId \/ CallClass
    \/ CallAttr \/ CallPseudoClass \/ CallPseudoElement
    \/ BuilderElement \/ BuilderId \/ BuilderClass
    \/ BuilderAttr \/ BuilderPseudoClass \/ BuilderPseudoElement

SpecCss ==
    /\ CssInit
    /\ [][CssNext]_vars

\* the kinds ks stand in the order element, id, class, attribute,
\* pseudo-class, pseudo-element, with element, id and pseudo-element at
\* most once
WellArranged(ks) ==
    /\ \A a, b \in DOMAIN ks : a < b => ks[a] <= ks[b]
    /\ \A u \in { 1, 2, 6 } : Cardinality({ a \in DOMAIN ks : ks[a] = u }) <= 1

\* C7: every selector the calls have produced stringifies to parts in the
\* order element, id, class, attribute, pseudo-class, pseudo-element with
\* at most one element, id and pseudo-element; and a call that would break
\* the order or repeat one of these three has thrown and produced no
\* selector.
C7_SelectorsWellArranged ==
    /\ \A k \in DOMAIN heap : WellArranged(Kinds(heap[k].result))
    /\ (last.kind # 0 /\ ~ WellArranged(Kinds(last.before) \o << last.kind >>))
          => (last.threw /\ Len(heap) = last.size)

C7_Witness ==
    /\ Len(heap) = 3
    /\ heap[3].result = << "a", "#", "a", ":", ":", "a" >>
    /\ last.kind = 2
    /\ last.before = heap[3].result
    /\ last.threw

===========================================================================
